---- MODULE Spec2Model ----
(***************************************************************************)
(* ParsedDeadlineSuggestions (Duestack): the suggestion store, the intake  *)
(* of extractor payloads with structural and domain validation, manual     *)
(* editing, refinement with feedback and confirmation.                     *)
(*                                                                         *)
(* Suggestions are JavaScript objects: the store, the caller and the       *)
(* editing helpers share them by reference.  The model keeps a heap of     *)
(* objects (heap[a] is the object at address a) and the store's array as a *)
(* sequence of addresses, so that a mutation through one reference is seen *)
(* through every other, and a replaced record leaves a stale object behind *)
(* that the caller may still pass in.                                      *)
(*                                                                         *)
(* Time values are seconds since 1970-01-01T00:00:00Z; confidence values   *)
(* are tenths (3 is 0.3); text is a sequence of one-character strings.     *)
(***************************************************************************)
EXTENDS Integers, Sequences, FiniteSets, TLC

\* ------------------------------------------------------------------ bounds

\* Objects ever allocated on the heap in one behaviour.
MaxObj == 2
\* Length of the store's array (add never rejects, so it is capped here).
MaxStore == 2
\* Warnings on one object beyond which editing and refinement are not tried.
MaxWarn == 2
\* Entries in one extractor payload.
MaxPayload == 2
\* The refinements that await the extractor at one time.
MaxPending == 1

\* --------------------------------------------------------------- JS values

\* An absent property (undefined).
Undef == [k |-> "undef", s |-> <<>>, n |-> 0]
\* A string value, as its characters.
Str(chars) == [k |-> "str", s |-> chars, n |-> 0]
\* A number value (confidence: in tenths).
Num(v) == [k |-> "num", s |-> <<>>, n |-> v]

\* JavaScript truthiness of a value: undefined, "" and 0 are falsy.
Truthy(v) ==
    \/ v.k = "str" /\ v.s # <<>>
    \/ v.k = "num" /\ v.n # 0

\* a || b
OrElse(a, b) == IF Truthy(a) THEN a ELSE b

\* String.prototype.toLowerCase on one character.
UpperLetters ==
    <<"A","B","C","D","E","F","G","H","I","J","K","L","M",
      "N","O","P","Q","R","S","T","U","V","W","X","Y","Z">>
LowerLetters ==
    <<"a","b","c","d","e","f","g","h","i","j","k","l","m",
      "n","o","p","q","r","s","t","u","v","w","x","y","z">>
LowerChar(c) ==
    IF \E i \in 1..26 : UpperLetters[i] = c
    THEN LowerLetters[CHOOSE i \in 1..26 : UpperLetters[i] = c]
    ELSE c

\* String.prototype.toLowerCase
ToLowerCase(chars) == [i \in 1..Len(chars) |-> LowerChar(chars[i])]

\* String.prototype.includes
Includes(chars, term) ==
    \E i \in 0..(Len(chars) - Len(term)) :
        \A j \in 1..Len(term) : chars[i + j] = term[j]

\* ------------------------------------------------------------------- dates

\* The time value of an Invalid Date.
NaN == -1

SecPerMin == 60
SecPerHour == 3600
SecPerDay == 86400

\* Days since 1970-01-01 of a proleptic Gregorian date.
DaysFromCivil(y, m, d) ==
    LET yy  == IF m <= 2 THEN y - 1 ELSE y
        era == yy \div 400
        yoe == yy - era * 400
        mp  == IF m > 2 THEN m - 3 ELSE m + 9
        doy == (153 * mp + 2) \div 5 + d - 1
        doe == yoe * 365 + yoe \div 4 - yoe \div 100 + doy
    IN  era * 146097 + doe - 719468

\* The Gregorian date of a day number.
CivilFromDays(z) ==
    LET zz  == z + 719468
        era == zz \div 146097
        doe == zz - era * 146097
        yoe == (doe - doe \div 1460 + doe \div 36524 - doe \div 146096) \div 365
        doy == doe - (365 * yoe + yoe \div 4 - yoe \div 100)
        mp  == (5 * doy + 2) \div 153
        d   == doy - (153 * mp + 2) \div 5 + 1
        m   == IF mp < 10 THEN mp + 3 ELSE mp - 9
        y   == yoe + era * 400 + (IF m <= 2 THEN 1 ELSE 0)
    IN  [y |-> y, m |-> m, d |-> d]

DaysInMonth(y, m) ==
    IF m = 2
    THEN (IF (y % 4 = 0 /\ y % 100 # 0) \/ y % 400 = 0 THEN 29 ELSE 28)
    ELSE (IF m \in {4, 6, 9, 11} THEN 30 ELSE 31)

\* A date-time string of the extractor: either free text that is no date, or
\* the fields of an ISO 8601 "YYYY-MM-DDTHH:mm:ssZ" string.
IsoString(y, mo, d, h, mi, s) ==
    [k |-> "str", s |-> <<"i">>, n |-> 0,
     iso |-> TRUE, y |-> y, mo |-> mo, d |-> d, h |-> h, mi |-> mi, sec |-> s]
FreeText(chars) ==
    [k |-> "str", s |-> chars, n |-> 0,
     iso |-> FALSE, y |-> 0, mo |-> 0, d |-> 0, h |-> 0, mi |-> 0, sec |-> 0]
NoDue ==
    [k |-> "undef", s |-> <<>>, n |-> 0,
     iso |-> FALSE, y |-> 0, mo |-> 0, d |-> 0, h |-> 0, mi |-> 0, sec |-> 0]

\* new Date(string): the time value, NaN for a string that is no date.
NewDate(v) ==
    IF v.k = "str" /\ v.iso
         /\ v.mo \in 1..12 /\ v.d \in 1..DaysInMonth(v.y, v.mo)
         /\ v.h \in 0..23 /\ v.mi \in 0..59 /\ v.sec \in 0..59
    THEN DaysFromCivil(v.y, v.mo, v.d) * SecPerDay
            + v.h * SecPerHour + v.mi * SecPerMin + v.sec
    ELSE NaN

\* The local wall-clock fields of a time value in a zone tzMin minutes east
\* of UTC (getDay, getHours, getDate, getMonth read these).
LocalFields(t, tzMin) ==
    LET loc  == t + tzMin * SecPerMin
        days == loc \div SecPerDay
        rest == loc % SecPerDay
        c    == CivilFromDays(days)
    IN  [y |-> c.y, m |-> c.m, d |-> c.d,
         h |-> rest \div SecPerHour,
         mi |-> (rest % SecPerHour) \div SecPerMin,
         sec |-> rest % SecPerMin,
         wd |-> (days + 4) % 7]

\* Date.prototype.getDay (0 is Sunday); NaN for an Invalid Date.
GetDay(t, tzMin) == IF t = NaN THEN NaN ELSE LocalFields(t, tzMin).wd
\* Date.prototype.getHours
GetHours(t, tzMin) == IF t = NaN THEN NaN ELSE LocalFields(t, tzMin).h
\* Date.prototype.getDate
GetDate(t, tzMin) == IF t = NaN THEN NaN ELSE LocalFields(t, tzMin).d

\* ------------------------------------------------------------- suggestions

\* A ParsedDeadlineSuggestion object.  confirmed: an absent flag and false
\* are both FALSE (the code only tests its truthiness); warnings: an absent
\* list is <<>> (the code reads it as `warnings || []`).
Suggestion(id, title, due, source, method, confidence, provenance, doc, url, canvas) ==
    [id |-> id, title |-> title, due |-> due, source |-> source,
     extractionMethod |-> method, confidence |-> confidence,
     confirmed |-> FALSE, provenance |-> provenance, warnings |-> <<>>,
     uploadedDocument |-> doc, websiteUrl |-> url, canvasMetadata |-> canvas]

\* Appending one warning: [...(suggestion.warnings || []), w]
AddWarning(ws, cond, w) == IF cond THEN Append(ws, w) ELSE ws

\* Numeric comparisons of a JavaScript value with a number: false unless the
\* value is a number (undefined and NaN compare false).
NumLess(v, c) == v.k = "num" /\ v.n < c
NumGreater(v, c) == v.k = "num" /\ v.n > c
\* Comparisons of time values: false when either side is NaN.
TimeLess(a, b) == a # NaN /\ b # NaN /\ a < b

\* --------------------------------------------------------------- validators

\* An extractor response.  shape "list": the text holds a JSON object whose
\* suggestions property is the array `entries`; otherwise there are no
\* entries: "llmfail": the extractor call failed or timed out; "nojson": the
\* text holds no {...}; "badjson": JSON.parse throws; "notobject": the value
\* is no object; "nolist": no (or a falsy) suggestions property; "notarray":
\* the property is no array.
Response(shape, entries) == [shape |-> shape, entries |-> entries]

\* One entry of the suggestions array: an object with optional title, due,
\* confidence and provenance, or null.
Entry(title, due, confidence, provenance) ==
    [null |-> FALSE, title |-> title, due |-> due,
     confidence |-> confidence, provenance |-> provenance]
NullEntry ==
    [null |-> TRUE, title |-> Undef, due |-> NoDue,
     confidence |-> Undef, provenance |-> Undef]

\* validateLLMResponse: TRUE when it throws: on the shape of the response, or
\* with a TypeError on reading `suggestion.title` of a null entry.  The
\* per-entry issues (title, due, confidence, tbd, soon) are only logged.
ValidateLLMResponseThrows(response) ==
    \/ response.shape \in {"notobject", "nolist", "notarray"}
    \/ \E i \in 1..Len(response.entries) : response.entries[i].null

\* The issues validateLLMResponse logs for one entry.
EntryIssues(item) ==
    LET i1 == AddWarning(<<>>, ~Truthy(item.title) \/ item.title.k # "str",
                         "Missing or invalid 'title' field")
        i2 == AddWarning(i1, ~Truthy(item.due), "Missing 'due' field")
        i3 == AddWarning(i2, Truthy(item.due) /\ NewDate(item.due) = NaN,
                         "Invalid date format")
        i4 == AddWarning(i3, item.confidence.k # "undef"
                               /\ (item.confidence.k # "num"
                                   \/ item.confidence.n < 0
                                   \/ item.confidence.n > 10),
                         "Invalid confidence score")
    IN  i4

\* The vague marker words of validateForHallucination.
VagueTerms ==
    { <<"t","b","d">>, <<"s","o","o","n">>, <<"l","a","t","e","r">>,
      <<"e","v","e","n","t","u","a","l","l","y">>,
      <<"s","o","m","e","t","i","m","e">> }

\* A calendar check that takes only Saturday for the weekend.
SaturdayOnlyCalendarLogic(sug, ws, tzMin) ==
    LET dayOfWeek == GetDay(sug.due, tzMin)
        hour == GetHours(sug.due, tzMin)
        w1 == AddWarning(ws, sug.due # NaN /\ dayOfWeek = 6,
                         "Weekend deadline - verify if correct")
        w2 == AddWarning(w1, sug.due # NaN /\ hour < 6,
                         "Very early morning deadline - verify if correct")
    IN  w2

\* validateAcademicCalendarLogic: the warnings it appends to ws.
ValidateAcademicCalendarLogic(sug, ws, tzMin) ==
    LET dayOfWeek == GetDay(sug.due, tzMin)
        hour == GetHours(sug.due, tzMin)
        w1 == AddWarning(ws, sug.due # NaN /\ (dayOfWeek = 0 \/ dayOfWeek = 6),
                         "Weekend deadline - verify if correct")
        w2 == AddWarning(w1, sug.due # NaN /\ hour < 6,
                         "Very early morning deadline - verify if correct")
        w3 == AddWarning(w2, sug.due # NaN /\ hour > 23,
                         "Very late evening deadline - verify if correct")
    IN  w3

\* A hallucination check whose confidence threshold includes 0.7.
InclusiveThresholdHallucination(sug, ws, nowT, tzMin) ==
    LET lower == ToLowerCase(sug.title.s)
        hasVagueTerms == \E term \in VagueTerms : Includes(lower, term)
    IN  AddWarning(ws, hasVagueTerms /\ Truthy(sug.confidence)
                         /\ sug.confidence.k = "num" /\ sug.confidence.n >= 7,
                   "High confidence on vague term - possible hallucination")

\* validateForHallucination: the warnings it appends to ws (the title is a
\* string here: the caller has thrown otherwise).
ValidateForHallucination(sug, ws, nowT, tzMin) ==
    LET lower == ToLowerCase(sug.title.s)
        hasVagueTerms == \E term \in VagueTerms : Includes(lower, term)
        timeDiff == sug.due - nowT
        day == GetDate(sug.due, tzMin)
        w1 == AddWarning(ws, hasVagueTerms /\ Truthy(sug.confidence)
                               /\ NumGreater(sug.confidence, 7),
                         "High confidence on vague term - possible hallucination")
        w2 == AddWarning(w1, sug.due # NaN /\ timeDiff < SecPerDay /\ timeDiff > 0,
                         "Very short deadline - verify if correct")
        w3 == AddWarning(w2, sug.due # NaN /\ day \in {1, 15, 30, 31}
                               /\ Truthy(sug.confidence)
                               /\ NumGreater(sug.confidence, 8),
                         "High confidence on round date - possible generation")
    IN  w3

\* validateSuggestions throws a TypeError when it calls toLowerCase on a title
\* that is no string: on the suggestion's own title always (line 991), on a
\* stored one when the duplicate filter visits it (line 888).
ValidateThrows(sug, all) ==
    \/ sug.title.k # "str"
    \/ \E i \in 1..Len(all) : all[i].title.k # "str"

\* A check of the dates that takes a due exactly one year from now, and one
\* exactly now, for implausible.
ImplausibleDatesInclusive(sug, ws, nowT) ==
    LET oneYearFromNow == nowT + 365 * SecPerDay
        w1 == AddWarning(ws, sug.due # NaN /\ sug.due <= nowT, "Date is in the past")
    IN  AddWarning(w1, sug.due # NaN /\ oneYearFromNow <= sug.due,
                   "Date is very far in the future")

\* The check for implausible dates of validateSuggestions: a due before
\* now, a due after now + 365 days.
ImplausibleDates(sug, ws, nowT) ==
    LET oneYearFromNow == nowT + 365 * SecPerDay
        w1 == AddWarning(ws, TimeLess(sug.due, nowT), "Date is in the past")
    IN  AddWarning(w1, TimeLess(oneYearFromNow, sug.due),
                   "Date is very far in the future")

\* validateSuggestions for one suggestion against the stored ones: the
\* warnings it leaves on the suggestion.
ValidateOne(sug, all, nowT, tzMin) ==
    LET duplicates == { i \in 1..Len(all) :
                          /\ ToLowerCase(all[i].title.s) = ToLowerCase(sug.title.s)
                          /\ all[i].id # sug.id }
        w2 == ImplausibleDates(sug, sug.warnings, nowT)
        w3 == AddWarning(w2, duplicates # {}, "Potential duplicate")
        w4 == AddWarning(w3, Truthy(sug.confidence) /\ NumLess(sug.confidence, 3),
                         "Low confidence score")
        w5 == ValidateAcademicCalendarLogic(sug, w4, tzMin)
    IN  ValidateForHallucination(sug, w5, nowT, tzMin)

\* validateSuggestions over a list: the list with the warnings set.
ValidateSuggestions(sugs, all, nowT, tzMin) ==
    [i \in 1..Len(sugs) |->
        [sugs[i] EXCEPT !.warnings = ValidateOne(sugs[i], all, nowT, tzMin)]]

\* -------------------------------------------------------------------- state

VARIABLES
    heap,         \* the suggestion objects ever created, by address
    suggestions,  \* ParsedDeadlineState.suggestions: addresses, in order
    now,          \* the current instant (new Date())
    tz,           \* the process's zone, minutes east of UTC (fixed offset)
    last,         \* the last call: its name, arguments and outcome
    pending       \* the calls awaiting the extractor, in order of their start

vars == <<heap, suggestions, now, tz, last, pending>>

\* The objects of a list of addresses.
Objects(addrs) == [i \in 1..Len(addrs) |-> heap[addrs[i]]]

\* The addresses of objects the caller can hold: every call returns the
\* objects it created.
Handles == 1..Len(heap)

\* What a call leaves in `last`: its name, whether it returned a result (not
\* an error, null or false), the address of the object it was about (0 for
\* none), the kind of its input and what it returned.
Call(op, ok, h, arg, out) ==
    [op |-> op, ok |-> ok, h |-> h, arg |-> arg, out |-> out]

\* ---------------------------------------------------- ParsedDeadlineState

\* this.suggestions.findIndex((s) => s.id === suggestionId): 0 for -1.
FindIndex(objs, id) ==
    IF \E i \in 1..Len(objs) : objs[i].id = id
    THEN CHOOSE i \in 1..Len(objs) :
            /\ objs[i].id = id
            /\ \A j \in 1..(i - 1) : objs[j].id # id
    ELSE 0

\* A lookup that gives the first stored object when the id is not found.
GetSuggestionByIdOrFirst(store, hp, id) ==
    LET i == FindIndex([k \in 1..Len(store) |-> hp[store[k]]], id)
    IN  IF i # 0 THEN store[i] ELSE IF store = <<>> THEN 0 ELSE store[1]

\* getSuggestionById: the address of the first stored object with the id, 0
\* for null.
GetSuggestionById(store, hp, id) ==
    LET i == FindIndex([k \in 1..Len(store) |-> hp[store[k]]], id)
    IN  IF i = 0 THEN 0 ELSE store[i]

\* An update that appends the record when the id is not in the store.
UpdateOrAppend(store, hp, id, addr) ==
    LET i == FindIndex([k \in 1..Len(store) |-> hp[store[k]]], id)
    IN  IF i = 0 THEN Append(store, addr) ELSE [store EXCEPT ![i] = addr]

\* updateSuggestion: the store's array after it (unchanged when the id is
\* not found); hp is the heap the ids are read from.
UpdateSuggestion(store, hp, id, addr) ==
    LET i == FindIndex([k \in 1..Len(store) |-> hp[store[k]]], id)
    IN  IF i = 0 THEN store ELSE [store EXCEPT ![i] = addr]

\* An add that skips the objects the store already holds.
AddSuggestionsSkippingStored(store, addrs) ==
    store \o SelectSeq(addrs, LAMBDA a : \A k \in 1..Len(store) : store[k] # a)

\* addSuggestions: this.suggestions.push(...suggestions)
AddSuggestionsTo(store, addrs) == store \o addrs

\* A removal that takes out every record with the id.
RemoveEveryRecordWithId(store, hp, id) ==
    SelectSeq(store, LAMBDA a : hp[a].id # id)

\* removeSuggestion: the store's array after it: the first record with the
\* id is spliced out (the array is unchanged when the id is not found).
RemoveSuggestionFrom(store, hp, id) ==
    LET i == FindIndex([k \in 1..Len(store) |-> hp[store[k]]], id)
    IN  IF i = 0 THEN store
        ELSE [k \in 1..(Len(store) - 1) |->
                IF k < i THEN store[k] ELSE store[k + 1]]

\* A filter that lets every suggestion through.
GetSuggestionsUnfiltered(store, hp) == store

\* getUnconfirmedSuggestions: this.suggestions.filter((s) => !s.confirmed)
GetUnconfirmedSuggestions(store, hp) ==
    SelectSeq(store, LAMBDA a : ~hp[a].confirmed)

\* getStateStatistics: the counts it returns (all but averageConfidence, a
\* quotient).  The counts by source and by method are the objects that the
\* reduce builds: one key for each value met, with the number of places.
GetStateStatistics(store, hp) ==
    LET places == 1..Len(store)
        obj(k) == hp[store[k]]
        totalSuggestions == Len(store)
        confirmedSuggestions == Cardinality({ k \in places : obj(k).confirmed })
    IN  [ totalSuggestions |-> totalSuggestions,
          confirmedSuggestions |-> confirmedSuggestions,
          unconfirmedSuggestions |-> totalSuggestions - confirmedSuggestions,
          suggestionsBySource |->
              [ src \in { obj(k).source : k \in places } |->
                  Cardinality({ k \in places : obj(k).source = src }) ],
          suggestionsByMethod |->
              [ method \in { obj(k).extractionMethod : k \in places } |->
                  Cardinality({ k \in places : obj(k).extractionMethod = method }) ],
          suggestionsWithWarnings |->
              Cardinality({ k \in places : obj(k).warnings # <<>> }) ]

\* ------------------------------------------------ ParsedDeadlineSuggestions

\* generateId draws a random string: it may give an id no object has (the
\* model names it after the address the object gets) or one already drawn.
GenerateIdChoices(hp, addr) == {addr} \cup { hp[a].id : a \in 1..Len(hp) }

\* A parser that skips no item.
SurvivingUnfiltered(entries) == entries

\* The entries parseLLMResponse turns into suggestions: those with a truthy
\* title and a truthy due, in order.
RECURSIVE Surviving(_)
Surviving(entries) ==
    IF entries = <<>> THEN <<>>
    ELSE LET item == Head(entries)
             rest == Surviving(Tail(entries))
         IN  IF ~Truthy(item.title) \/ ~Truthy(item.due)
             THEN rest
             ELSE <<item>> \o rest

\* The suggestion parseLLMResponse builds from one entry.
BuildSuggestion(item, id, source, doc, url) ==
    Suggestion(id, item.title, NewDate(item.due), source, "LLM",
               OrElse(item.confidence, Num(5)),
               OrElse(item.provenance,
                      Str(<<"L","L","M"," ","e","x","t","r","a","c","t","i","o","n">>)),
               doc, url, Undef)

\* A parseLLMResponse without the checks of the candidate list: it throws
\* only when the text holds no JSON or an entry cannot be read.
ParseLLMResponseUnchecked(response) ==
    \/ response.shape \in {"nojson", "badjson"}
    \/ \E i \in 1..Len(response.entries) : response.entries[i].null

\* parseLLMResponse throws: no JSON in the text, JSON.parse fails, or
\* validateLLMResponse throws (its own check of the array repeats that one).
ParseLLMResponseThrows(response) ==
    \/ response.shape \in {"nojson", "badjson"}
    \/ ValidateLLMResponseThrows(response)
    \/ response.shape \in {"nolist", "notarray"}

\* An extractor call whose failure is swallowed: the operation goes on with
\* no candidates.
ExecuteLLMSwallowsFailure(response) == FALSE

\* executeLLM throws: the request timed out (Promise.race with the timeout
\* promise) or the call to the model failed.  There is one call to the
\* model and the error is rethrown.
ExecuteLLMThrows(response) == response.shape = "llmfail"

\* parseLLMResponse: the suggestions it returns, with the ids drawn.
ParseLLMResponse(response, ids, source, doc, url) ==
    LET items == Surviving(response.entries)
    IN  [i \in 1..Len(items) |-> BuildSuggestion(items[i], ids[i], source, doc, url)]

\* All sequences over S of length at most n.
SeqsUpTo(S, n) == UNION { [1..k -> S] : k \in 0..n }

\* The ids generateId may draw for n objects created at addresses
\* Len(heap) + 1 .. Len(heap) + n.
IdDraws(n) ==
    { ids \in [1..n -> 1..(Len(heap) + n)] :
        \A k \in 1..n :
            ids[k] \in GenerateIdChoices(heap, Len(heap) + k)
                         \cup { ids[j] : j \in 1..(k - 1) } }

\* The body of llmExtractFromDocument and llmExtractFromWebsite from the
\* return of the awaited extractor call on: parseLLMResponse, validateSuggestions against
\* the stored suggestions, addSuggestions.  Any throw leaves the function
\* before addSuggestions.
ExtractCompletion(op, response, source, doc, url) ==
    LET n == Len(Surviving(response.entries))
    IN  IF ExecuteLLMThrows(response) \/ ParseLLMResponseThrows(response)
        THEN /\ last' = Call(op, FALSE, 0, response.shape, <<>>)
             /\ UNCHANGED <<heap, suggestions, now, tz>>
        ELSE /\ Len(heap) + n <= MaxObj
             /\ Len(suggestions) + n <= MaxStore
             /\ \E ids \in IdDraws(n) :
                  LET parsed == ParseLLMResponse(response, ids, source, doc, url)
                      all == Objects(suggestions)
                      addrs == [i \in 1..n |-> Len(heap) + i]
                  IN  IF \E i \in 1..n : ValidateThrows(parsed[i], all)
                      THEN /\ last' = Call(op, FALSE, 0, "typeerror", <<>>)
                           /\ UNCHANGED <<heap, suggestions, now, tz>>
                      ELSE /\ heap' = heap \o ValidateSuggestions(parsed, all, now, tz)
                           /\ suggestions' = AddSuggestionsTo(suggestions, addrs)
                           /\ last' = Call(op, TRUE, 0, response.shape, addrs)
                           /\ UNCHANGED <<now, tz>>

\* llmExtractFromDocument and llmExtractFromWebsite when nothing runs between
\* the call to the extractor and its answer.
LlmExtract(op, response, source, doc, url) ==
    /\ ExtractCompletion(op, response, source, doc, url)
    /\ UNCHANGED pending

\* The mock Canvas assignments of parseFromCanvas.
MockCanvasData ==
    << [title |-> Str(<<"P","r","o","b","l","e","m"," ","S","e","t"," ","3">>),
        due_date |-> IsoString(2024, 12, 15, 23, 59, 59)],
       [title |-> Str(<<"F","i","n","a","l"," ","P","r","o","j","e","c","t">>),
        due_date |-> IsoString(2024, 12, 20, 17, 0, 0)] >>

\* The course name of every mock assignment, "6.1040".
CourseName == <<"6",".","1","0","4","0">>

\* parseFromCanvas: the mock assignments become suggestions (no validation)
\* and are added to the store.
ParseFromCanvas ==
    /\ Len(heap) + Len(MockCanvasData) <= MaxObj
    /\ Len(suggestions) + Len(MockCanvasData) <= MaxStore
    /\ \E ids \in IdDraws(Len(MockCanvasData)) :
         LET made == [i \in 1..Len(MockCanvasData) |->
                        Suggestion(ids[i], MockCanvasData[i].title,
                                   NewDate(MockCanvasData[i].due_date),
                                   "CANVAS", "RULES", Num(9),
                                   Str(<<"C","a","n","v","a","s"," ","a","s","s","i","g",
                                         "n","m","e","n","t"," ","f","r","o","m"," ">>
                                       \o CourseName),
                                   "none", "none", Str(CourseName))]
             addrs == [i \in 1..Len(MockCanvasData) |-> Len(heap) + i]
         IN  /\ heap' = heap \o made
             /\ suggestions' = AddSuggestionsTo(suggestions, addrs)
             /\ last' = Call("parseFromCanvas", TRUE, 0, "", addrs)
             /\ UNCHANGED <<now, tz, pending>>

\* addSuggestions(suggestions): the caller adds objects it holds.
AddSuggestions(addrs) ==
    /\ addrs # <<>>
    /\ Len(suggestions) + Len(addrs) <= MaxStore
    /\ suggestions' = AddSuggestionsTo(suggestions, addrs)
    /\ last' = Call("addSuggestions", TRUE, 0, "", addrs)
    /\ UNCHANGED <<heap, now, tz, pending>>

\* clearSuggestions
ClearSuggestions ==
    /\ suggestions' = <<>>
    /\ last' = Call("clearSuggestions", TRUE, 0, "", <<>>)
    /\ UNCHANGED <<heap, now, tz, pending>>

\* removeSuggestion(suggestionId) of the store: true when a record was
\* found and removed.
RemoveSuggestion(id) ==
    /\ suggestions' = RemoveSuggestionFrom(suggestions, heap, id)
    /\ last' = Call("removeSuggestion",
                    GetSuggestionById(suggestions, heap, id) # 0, 0, "", <<id>>)
    /\ UNCHANGED <<heap, now, tz, pending>>

\* A call that awaits the extractor: the operation, the object it is about
\* (0 for none) and what it awaits: the page ("fetch") or the model.
PendingCall(op, h, stage) == [op |-> op, h |-> h, stage |-> stage]

\* A sequence without its i-th element.
DropAt(seq, i) ==
    [k \in 1..(Len(seq) - 1) |-> IF k < i THEN seq[k] ELSE seq[k + 1]]

\* refineWithFeedback(suggestion, feedback, config, llm) on the object at
\* address h, from the return of `await llm.executeLLM` on: the first
\* suggestion parsed from the response takes the object's id and its
\* warnings plus one, and replaces the stored record with that id (if there
\* is one).  The refined object is a new object.
RefineCompletion(h, response) ==
    LET old == heap[h]
        items == Surviving(response.entries)
    IN  IF \/ ExecuteLLMThrows(response)
           \/ ParseLLMResponseThrows(response)
           \/ items = <<>>
        THEN /\ last' = Call("refineWithFeedback", FALSE, h,
                             IF items = <<>> /\ response.shape = "list"
                             THEN "nocandidate" ELSE response.shape, <<>>)
             /\ UNCHANGED <<heap, suggestions, now, tz>>
        ELSE /\ Len(heap) < MaxObj
             /\ Len(old.warnings) < MaxWarn
             /\ LET parsed == BuildSuggestion(items[1], old.id, old.source,
                                              old.uploadedDocument, old.websiteUrl)
                    refined == [parsed EXCEPT !.warnings =
                                  old.warnings \o <<"Refined with user feedback">>]
                    addr == Len(heap) + 1
                IN  /\ heap' = Append(heap, refined)
                    /\ suggestions' = UpdateSuggestion(suggestions, heap, old.id, addr)
                    /\ last' = Call("refineWithFeedback", TRUE, h, response.shape,
                                    <<addr>>)
                    /\ UNCHANGED <<now, tz>>

\* refineWithFeedback when nothing runs between its call to the extractor
\* and the extractor's answer.
RefineWithFeedback(h, response) ==
    /\ RefineCompletion(h, response)
    /\ UNCHANGED pending

\* refineWithFeedback up to `await llm.executeLLM`: the prompt is built and
\* sent, and the call waits for the answer while other calls run.
RefineStart(h) ==
    /\ Len(pending) < MaxPending
    /\ pending' = Append(pending, PendingCall("refineWithFeedback", h, "model"))
    /\ last' = Call("executeLLM", TRUE, h, "", <<>>)
    /\ UNCHANGED <<heap, suggestions, now, tz>>

\* The i-th waiting refineWithFeedback gets its answer and runs to its end.
RefineComplete(i, response) ==
    /\ pending[i].op = "refineWithFeedback"
    /\ RefineCompletion(pending[i].h, response)
    /\ pending' = DropAt(pending, i)

\* llmExtractFromDocument up to `await llm.executeLLM`: the call waits for
\* the model's answer.
DocumentStart ==
    /\ Len(pending) < MaxPending
    /\ pending' = Append(pending, PendingCall("llmExtractFromDocument", 0, "model"))
    /\ last' = Call("executeLLM", TRUE, 0, "", <<>>)
    /\ UNCHANGED <<heap, suggestions, now, tz>>

\* llmExtractFromWebsite up to `await llm.executeLLMWithURL`, which first
\* fetches the page: the call waits for the page.
WebsiteStart ==
    /\ Len(pending) < MaxPending
    /\ pending' = Append(pending, PendingCall("llmExtractFromWebsite", 0, "fetch"))
    /\ last' = Call("executeLLMWithURL", TRUE, 0, "", <<>>)
    /\ UNCHANGED <<heap, suggestions, now, tz>>

\* The rest of the i-th waiting call, run on the extractor's outcome.
Completion(i, response) ==
    LET c == pending[i]
    IN  /\ \/ /\ c.op = "refineWithFeedback"
              /\ RefineCompletion(c.h, response)
           \/ /\ c.op = "llmExtractFromDocument"
              /\ ExtractCompletion(c.op, response, "SYLLABUS", "doc", "none")
           \/ /\ c.op = "llmExtractFromWebsite"
              /\ ExtractCompletion(c.op, response, "WEBSITE", "none", "url")
        /\ pending' = DropAt(pending, i)

\* executeLLMWithURL: the page arrives, and the page and the prompt go to
\* the model with `await model.generateContent(fullPrompt)`.
FetchAnswers(i) ==
    /\ pending[i].stage = "fetch"
    /\ pending' = [pending EXCEPT ![i].stage = "model"]
    /\ last' = Call("fetch", TRUE, 0, "", <<>>)
    /\ UNCHANGED <<heap, suggestions, now, tz>>

\* executeLLMWithURL: request.setTimeout fires (or the request fails) while
\* the page is awaited: the promise is rejected and the call throws.
FetchTimesOut(i) ==
    /\ pending[i].stage = "fetch"
    /\ Completion(i, Response("llmfail", <<>>))

\* executeLLM: the timeout promise of Promise.race rejects while the model
\* is awaited, and the call throws.  executeLLMWithURL awaits the model with
\* no timeout.
ModelTimesOut(i) ==
    /\ pending[i].stage = "model"
    /\ pending[i].op # "llmExtractFromWebsite"
    /\ Completion(i, Response("llmfail", <<>>))

\* The model answers the i-th waiting call.
ModelAnswers(i, response) ==
    /\ pending[i].stage = "model"
    /\ Completion(i, response)

\* ------------------------------------------------ parsed-deadline-editing

\* The updates of editSuggestion: each field a value or undefined (a due is
\* a Date: the number is its time value).
Updates(title, due, confidence, provenance) ==
    [title |-> title, due |-> due, confidence |-> confidence,
     provenance |-> provenance]

\* An edit that assigns every field of the updates, the absent ones too.
EditSuggestionAssignsAll(sug, updates) ==
    [sug EXCEPT
       !.title = updates.title,
       !.due = IF updates.due.k # "undef" THEN updates.due.n ELSE NaN,
       !.confidence = updates.confidence,
       !.provenance = updates.provenance,
       !.warnings = Append(@, "Manually edited by user")]

\* editSuggestion(suggestion, updates): the object after it.
EditSuggestion(sug, updates) ==
    [sug EXCEPT
       !.title = IF updates.title.k # "undef" THEN updates.title ELSE @,
       !.due = IF updates.due.k # "undef" THEN updates.due.n ELSE @,
       !.confidence = IF updates.confidence.k # "undef"
                      THEN updates.confidence ELSE @,
       !.provenance = IF updates.provenance.k # "undef"
                      THEN updates.provenance ELSE @,
       !.warnings = Append(@, "Manually edited by user")]

\* A time text: whether /(\d{1,2}):(\d{2})\s*(am|pm)?/i matches it, and the
\* digits and the period it captures ("none" when there is no am or pm).
TimeText(hh, mm, period) == [match |-> TRUE, hh |-> hh, mm |-> mm, period |-> period]
NoTimeText == [match |-> FALSE, hh |-> 0, mm |-> 0, period |-> "none"]

\* The conversion to 24-hour format.
Hours24(text) ==
    IF text.period = "pm" /\ text.hh # 12 THEN text.hh + 12
    ELSE IF text.period = "am" /\ text.hh = 12 THEN 0
    ELSE text.hh

\* Date.prototype.setHours(hours, minutes, 0, 0) in the local zone: hours
\* and minutes out of range carry over.
SetHours(t, hours, minutes, tzMin) ==
    IF t = NaN THEN NaN
    ELSE LET loc == t + tzMin * SecPerMin
             midnight == (loc \div SecPerDay) * SecPerDay
         IN  midnight + hours * SecPerHour + minutes * SecPerMin
                - tzMin * SecPerMin

\* updateSuggestionTime(suggestion, newTime): whether it succeeds, and the
\* object after it.
UpdateSuggestionTime(sug, text, tzMin) ==
    IF ~text.match
    THEN [ok |-> FALSE, sug |-> sug]
    ELSE [ok |-> TRUE,
          sug |-> EditSuggestion(sug,
                    Updates(Undef,
                            Num(SetHours(sug.due, Hours24(text), text.mm, tzMin)),
                            Undef, Undef))]

\* batchUpdateTiming(suggestions, suggestionIds, timeRule): one id after the
\* other on the objects of the list; the heap and the counts after it.
RECURSIVE BatchUpdateTiming(_, _, _, _, _)
BatchUpdateTiming(hp, addrs, ids, text, tzMin) ==
    IF ids = <<>>
    THEN [heap |-> hp, success |-> 0, failed |-> 0]
    ELSE LET i == FindIndex([k \in 1..Len(addrs) |-> hp[addrs[k]]], Head(ids))
             r == IF i = 0 THEN [ok |-> FALSE, sug |-> Undef]
                  ELSE UpdateSuggestionTime(hp[addrs[i]], text, tzMin)
             hp1 == IF r.ok THEN [hp EXCEPT ![addrs[i]] = r.sug] ELSE hp
             rest == BatchUpdateTiming(hp1, addrs, Tail(ids), text, tzMin)
         IN  [heap |-> rest.heap,
              success |-> rest.success + (IF r.ok THEN 1 ELSE 0),
              failed |-> rest.failed + (IF r.ok THEN 0 ELSE 1)]

\* ------------------------------- ParsedDeadlineSuggestions: edit and confirm

\* editSuggestion(suggestionId, updates) of the service: null for an id not
\* in the store, else the stored object is edited in place and written back.
EditSuggestionCall(id, updates) ==
    LET a == GetSuggestionById(suggestions, heap, id)
    IN  IF a = 0
        THEN /\ last' = Call("editSuggestion", FALSE, 0, "", <<>>)
             /\ UNCHANGED <<heap, suggestions, now, tz, pending>>
        ELSE /\ Len(heap[a].warnings) < MaxWarn
             /\ heap' = [heap EXCEPT ![a] = EditSuggestion(heap[a], updates)]
             /\ suggestions' = UpdateSuggestion(suggestions, heap', id, a)
             /\ last' = Call("editSuggestion", TRUE, a, "", <<a>>)
             /\ UNCHANGED <<now, tz, pending>>

\* updateSuggestionTime(suggestionId, newTime) of the service.
UpdateSuggestionTimeCall(id, text) ==
    LET a == GetSuggestionById(suggestions, heap, id)
    IN  IF a = 0
        THEN /\ last' = Call("updateSuggestionTime", FALSE, 0, "", <<>>)
             /\ UNCHANGED <<heap, suggestions, now, tz, pending>>
        ELSE LET r == UpdateSuggestionTime(heap[a], text, tz)
             IN  /\ r.ok => Len(heap[a].warnings) < MaxWarn
                 /\ heap' = [heap EXCEPT ![a] = r.sug]
                 /\ suggestions' = IF r.ok
                                   THEN UpdateSuggestion(suggestions, heap', id, a)
                                   ELSE suggestions
                 /\ last' = Call("updateSuggestionTime", r.ok, a, "", <<>>)
                 /\ UNCHANGED <<now, tz, pending>>

\* batchUpdateTiming(suggestionIds, timeRule) of the service, on the copy of
\* the array that getAllSuggestions returns (the objects are shared).
BatchUpdateTimingCall(ids, text) ==
    LET r == BatchUpdateTiming(heap, suggestions, ids, text, tz)
    IN  /\ ids # <<>>
        /\ \A i \in 1..Len(suggestions) :
              Len(heap[suggestions[i]].warnings) + Len(ids) <= MaxWarn
        /\ heap' = r.heap
        /\ last' = Call("batchUpdateTiming", TRUE, 0, "",
                        <<r.success, r.failed>>)
        /\ UNCHANGED <<suggestions, now, tz, pending>>

\* The text of canvasMetadata is kept as the course_name of the JSON object
\* it holds ("6.1040" for JSON.stringify of a mock assignment); the text "{"
\* is no JSON and "{}" is an object without a course_name.
NotJson == Str(<<"{">>)
EmptyJson == Str(<<"{","}">>)

\* JSON.parse(text) throws a SyntaxError.
JsonParseThrows(text) == text = NotJson

\* JSON.parse(text).course_name
CourseNameOf(text) == IF text = EmptyJson THEN Undef ELSE text

UnknownCourse == <<"U","n","k","n","o","w","n"," ","C","o","u","r","s","e">>

\* An extractCourseFromSuggestion that reads the metadata only.
ExtractCourseFromMetadataOnly(sug) ==
    IF Truthy(sug.canvasMetadata)
    THEN OrElse(CourseNameOf(sug.canvasMetadata), Str(UnknownCourse)).s
    ELSE UnknownCourse

\* extractCourseFromSuggestion (when JSON.parse does not throw): the course
\* name of the Canvas metadata, else "6.1040" when the provenance text
\* contains it, else "Unknown Course".
ExtractCourseFromSuggestion(sug) ==
    IF Truthy(sug.canvasMetadata)
    THEN OrElse(CourseNameOf(sug.canvasMetadata), Str(UnknownCourse)).s
    ELSE IF Truthy(sug.provenance) /\ Includes(sug.provenance.s, CourseName)
    THEN CourseName
    ELSE UnknownCourse

\* confirm(suggestion, user) on the object at address h: it throws when the
\* object is confirmed or has no title; else it sets the object's flag and
\* writes the object to the store under its id; then it builds the tuple,
\* where extractCourseFromSuggestion throws when the metadata is no JSON.
Confirm(h, user) ==
    LET sug == heap[h]
    IN  IF sug.confirmed \/ ~Truthy(sug.title)
        THEN /\ last' = Call("confirm", FALSE, h, "", <<>>)
             /\ UNCHANGED <<heap, suggestions, now, tz, pending>>
        ELSE /\ heap' = [heap EXCEPT ![h].confirmed = TRUE]
             /\ suggestions' = UpdateSuggestion(suggestions, heap', sug.id, h)
             /\ last' = IF Truthy(sug.canvasMetadata)
                           /\ JsonParseThrows(sug.canvasMetadata)
                        THEN Call("confirm", FALSE, h, "syntaxerror", <<>>)
                        ELSE Call("confirm", TRUE, h, "",
                                  [course |-> ExtractCourseFromSuggestion(sug),
                                   title |-> sug.title, due |-> sug.due,
                                   source |-> sug.source, addedBy |-> user])
             /\ UNCHANGED <<now, tz, pending>>

\* addSuggestions([suggestion]) with an object the caller has built (its id
\* is the caller's choice: here one that no other object has).
AddBuiltSuggestion(sug) ==
    /\ Len(heap) < MaxObj
    /\ Len(suggestions) < MaxStore
    /\ heap' = Append(heap, [sug EXCEPT !.id = Len(heap) + 1])
    /\ suggestions' = AddSuggestionsTo(suggestions, <<Len(heap) + 1>>)
    /\ last' = Call("addSuggestions", TRUE, 0, "built", <<Len(heap) + 1>>)
    /\ UNCHANGED <<now, tz, pending>>

\* ------------------------------------------------------------------ inputs

\* The instants the clock shows, in order.
Clock ==
    << NewDate(IsoString(2025, 10, 1, 12, 0, 0)),
       NewDate(IsoString(2025, 10, 7, 12, 0, 0)) >>

TitleHW == Str(<<"H","W">>)
TitleHw == Str(<<"h","w">>)
TitleQuiz == Str(<<"Q","u","i","z">>)
TitleTBD == Str(<<"Q","u","i","z"," ","T","B","D">>)
ProvSyllabus == Str(<<"p","a","g","e"," ","1">>)
Prov61040 == Str(<<"6",".","1","0","4","0"," ","s","y","l","l","a","b","u","s">>)

\* Tuesday 2025-10-07 18:00 UTC; Saturday 2025-09-27 03:00 UTC.
DueTuesday == IsoString(2025, 10, 7, 18, 0, 0)
DueSaturday == IsoString(2025, 9, 27, 3, 0, 0)

\* The responses of the extractor over a set of entries.
Responses(entries, shapes) ==
    { Response(sh, <<>>) : sh \in shapes }
      \cup { Response("list", es) : es \in SeqsUpTo(entries, MaxPayload) }

\* The ids a caller may name: those of the objects it has seen, and one that
\* no object has.
KnownIds == { heap[a].id : a \in Handles } \cup {0}

\* -------------------------------------------- the lifecycle of suggestions

\* The entries, the updates and the time texts ("11:59 PM" and one with no
\* clock time) of the lifecycle specification.
LifeEntries ==
    { Entry(TitleHW, DueTuesday, Num(9), ProvSyllabus),
      Entry(Undef, DueTuesday, Num(5), ProvSyllabus) }

LifeResponses == Responses(LifeEntries, {"nolist"})

LifeUpdates == { Updates(TitleQuiz, Undef, Num(15), Undef) }

LifeTimes == { TimeText(11, 59, "pm"), NoTimeText }

Init ==
    /\ heap = <<>>
    /\ suggestions = <<>>
    /\ now = Clock[1]
    /\ tz = -4 * 60
    /\ last = Call("new", TRUE, 0, "", <<>>)
    /\ pending = <<>>

LlmExtractFromDocument ==
    \E r \in LifeResponses :
        LlmExtract("llmExtractFromDocument", r, "SYLLABUS", "doc", "none")

Refine == \E h \in Handles, r \in LifeResponses : RefineWithFeedback(h, r)

Edit == \E id \in KnownIds, u \in LifeUpdates : EditSuggestionCall(id, u)

EditTime == \E id \in KnownIds, t \in LifeTimes : UpdateSuggestionTimeCall(id, t)

EditBatch ==
    \E ids \in SeqsUpTo(KnownIds, 2), t \in LifeTimes : BatchUpdateTimingCall(ids, t)

\* The users who confirm.
Users == {"alice", "bob"}

ConfirmCall == \E h \in Handles, user \in Users : Confirm(h, user)

Add == \E h \in Handles : AddSuggestions(<<h>>)

Next ==
    \/ LlmExtractFromDocument
    \/ ParseFromCanvas
    \/ Refine
    \/ Edit
    \/ EditTime
    \/ EditBatch
    \/ ConfirmCall
    \/ Add
    \/ ClearSuggestions

Spec == Init /\ [][Next]_vars

\* ----------------------------------------------- the intake of responses

\* The entries of the intake specification: a good one; one with confidence
\* 0; one with no title; one whose title is a number, with no confidence and
\* no provenance; one whose due is no date ("next friday"), with no
\* confidence; one with confidence 1.5 and a vague title, due on a Saturday;
\* and null.
IntakeEntries ==
    { Entry(TitleHW, DueTuesday, Num(9), ProvSyllabus),
      Entry(TitleHw, DueTuesday, Num(0), ProvSyllabus),
      Entry(Undef, DueTuesday, Num(5), ProvSyllabus),
      Entry(Num(42), DueTuesday, Undef, Undef),
      Entry(TitleHW, FreeText(<<"n","e","x","t"," ","f","r","i","d","a","y">>),
            Undef, ProvSyllabus),
      Entry(TitleTBD, DueSaturday, Num(15), Prov61040),
      NullEntry }

IntakeResponses ==
    Responses(IntakeEntries, {"llmfail", "nojson", "nolist", "notarray"})

\* Time passes.
Tick ==
    /\ \E i \in 1..(Len(Clock) - 1) : now = Clock[i] /\ now' = Clock[i + 1]
    /\ last' = Call("tick", TRUE, 0, "", <<>>)
    /\ UNCHANGED <<heap, suggestions, tz, pending>>

IntakeFromDocument ==
    \E r \in IntakeResponses :
        LlmExtract("llmExtractFromDocument", r, "SYLLABUS", "doc", "none")

IntakeFromWebsite ==
    \E r \in IntakeResponses :
        LlmExtract("llmExtractFromWebsite", r, "WEBSITE", "none", "url")

IntakeRefine == \E h \in Handles, r \in IntakeResponses : RefineWithFeedback(h, r)

IntakeClear == ClearSuggestions

NextIntake ==
    \/ IntakeFromDocument
    \/ IntakeFromWebsite
    \/ IntakeRefine
    \/ IntakeClear
    \/ Tick

SpecIntake == Init /\ [][NextIntake]_vars

\* ------------------------------------------------- corrections of the time

\* The time texts of the timing specification: "11:59 PM", "23:59",
\* "12:00 AM", "25:00", "13:00 PM", "10:75" and one with no hour:minute.
TimingTexts ==
    { TimeText(11, 59, "pm"), TimeText(23, 59, "none"), TimeText(12, 0, "am"),
      TimeText(25, 0, "none"), TimeText(13, 0, "pm"), TimeText(10, 75, "none"),
      NoTimeText }

\* The responses of the timing specification: lists of one good entry.
TimingResponses ==
    Responses({ Entry(TitleHW, DueTuesday, Num(9), ProvSyllabus) }, {})

TimingIntake ==
    \E r \in TimingResponses :
        LlmExtract("llmExtractFromDocument", r, "SYLLABUS", "doc", "none")

TimingRefine == \E h \in Handles, r \in TimingResponses : RefineWithFeedback(h, r)

TimingEdit == \E id \in KnownIds, t \in TimingTexts : UpdateSuggestionTimeCall(id, t)

TimingBatch ==
    \E ids \in SeqsUpTo(KnownIds, 2), t \in TimingTexts : BatchUpdateTimingCall(ids, t)

TimingAdd == \E h \in Handles : AddSuggestions(<<h>>)

TimingClear == ClearSuggestions

NextTiming ==
    \/ TimingIntake
    \/ TimingRefine
    \/ TimingEdit
    \/ TimingBatch
    \/ TimingAdd
    \/ TimingClear

SpecTiming == Init /\ [][NextTiming]_vars

\* ------------------------------------------- domain validation at intake

TitleSoon == Str(<<"L","a","b"," ","s","o","o","n">>)
TitleLab == Str(<<"L","a","b">>)

\* Saturday 2025-10-11 and Sunday 2025-10-12 at 12:00 in the local zone.
DueSaturdayLocal == IsoString(2025, 10, 11, 16, 0, 0)
DueSundayLocal == IsoString(2025, 10, 12, 16, 0, 0)

\* Tuesday 2025-10-07 at 05:00 and at 23:59 in the local zone.
DueEarlyMorning == IsoString(2025, 10, 7, 9, 0, 0)
DueLateEvening == IsoString(2025, 10, 8, 3, 59, 0)

\* The instant the clock shows first; 365 days after it; one second more.
DueNow == IsoString(2025, 10, 1, 12, 0, 0)
DueInOneYear == IsoString(2026, 10, 1, 12, 0, 0)
DueAfterOneYear == IsoString(2026, 10, 1, 12, 0, 1)

\* The entries of the validation specification.  DueTuesday is Tuesday
\* 14:00 in the local zone; DueSaturday is Friday 23:00 there.
ValidateEntries ==
    { Entry(TitleHW, DueTuesday, Num(9), ProvSyllabus),
      Entry(TitleHw, DueTuesday, Num(5), ProvSyllabus),
      Entry(TitleTBD, DueTuesday, Num(9), ProvSyllabus),
      Entry(TitleTBD, DueTuesday, Num(7), ProvSyllabus),
      Entry(TitleTBD, DueSaturdayLocal, Num(5), ProvSyllabus),
      Entry(TitleSoon, DueSundayLocal, Num(8), ProvSyllabus),
      Entry(TitleHW, DueSaturday, Num(9), ProvSyllabus),
      Entry(TitleLab, DueSundayLocal, Undef, ProvSyllabus),
      Entry(TitleLab, DueEarlyMorning, Num(5), ProvSyllabus),
      Entry(TitleLab, DueLateEvening, Num(5), ProvSyllabus),
      Entry(TitleQuiz, DueTuesday, Num(0), ProvSyllabus),
      Entry(TitleQuiz, DueTuesday, Num(2), ProvSyllabus),
      Entry(TitleQuiz, DueTuesday, Num(3), ProvSyllabus),
      Entry(TitleLab, DueNow, Num(5), ProvSyllabus),
      Entry(TitleLab, DueInOneYear, Num(5), ProvSyllabus),
      Entry(TitleLab, DueAfterOneYear, Num(5), ProvSyllabus) }

ValidateResponses == Responses(ValidateEntries, {})

ValidateIntake ==
    \E r \in ValidateResponses :
        LlmExtract("llmExtractFromDocument", r, "SYLLABUS", "doc", "none")

ValidateClear == ClearSuggestions

NextValidate ==
    \/ ValidateIntake
    \/ ValidateClear

SpecValidate == Init /\ [][NextValidate]_vars

\* ------------------------------------------------------------ confirmation

\* The entries of the confirmation specification: one whose provenance
\* names the course and one whose provenance does not.
ConfirmEntries ==
    { Entry(TitleHW, DueTuesday, Num(9), ProvSyllabus),
      Entry(TitleQuiz, DueTuesday, Num(9), Prov61040) }

ConfirmResponses == Responses(ConfirmEntries, {})

\* The suggestions a caller builds: one whose metadata is no JSON and one
\* with no title.
BuiltSuggestions ==
    { Suggestion(0, TitleHW, NewDate(DueTuesday), "CANVAS", "RULES", Num(9),
                 ProvSyllabus, "none", "none", NotJson),
      Suggestion(0, Undef, NewDate(DueTuesday), "SYLLABUS", "LLM", Num(5),
                 ProvSyllabus, "doc", "none", Undef) }

ConfirmIntake ==
    \E r \in ConfirmResponses :
        LlmExtract("llmExtractFromDocument", r, "SYLLABUS", "doc", "none")

ConfirmCanvas == ParseFromCanvas

ConfirmAddBuilt == \E sug \in BuiltSuggestions : AddBuiltSuggestion(sug)

\* The responses to a refinement: one candidate; an empty list; one entry
\* with no title; one entry with no due.
RefineResponses ==
    { Response("list", <<Entry(TitleQuiz, DueTuesday, Num(9), Prov61040)>>),
      Response("list", <<>>),
      Response("list", <<Entry(Undef, DueTuesday, Num(9), ProvSyllabus)>>),
      Response("list", <<Entry(TitleHW, NoDue, Num(9), ProvSyllabus)>>) }

ConfirmRefine == \E h \in Handles, r \in RefineResponses : RefineWithFeedback(h, r)

ConfirmStep == \E h \in Handles, user \in Users : Confirm(h, user)

ConfirmClear == ClearSuggestions

NextConfirm ==
    \/ ConfirmIntake
    \/ ConfirmCanvas
    \/ ConfirmAddBuilt
    \/ ConfirmRefine
    \/ ConfirmStep
    \/ ConfirmClear

SpecConfirm == Init /\ [][NextConfirm]_vars

\* ------------------------------------------------- the store's operations

\* The store under every operation that writes it, removeSuggestion of the
\* store included.
StoreIntake ==
    \E r \in ConfirmResponses :
        LlmExtract("llmExtractFromDocument", r, "SYLLABUS", "doc", "none")

StoreRefine == \E h \in Handles, r \in TimingResponses : RefineWithFeedback(h, r)

StoreEdit == \E id \in KnownIds, u \in LifeUpdates : EditSuggestionCall(id, u)

StoreConfirm == \E h \in Handles, user \in Users : Confirm(h, user)

StoreAdd == \E h \in Handles : AddSuggestions(<<h>>)

StoreRemove == \E id \in KnownIds : RemoveSuggestion(id)

StoreClear == ClearSuggestions

NextStore ==
    \/ StoreIntake
    \/ StoreRefine
    \/ StoreEdit
    \/ StoreConfirm
    \/ StoreAdd
    \/ StoreRemove
    \/ StoreClear

SpecStore == Init /\ [][NextStore]_vars

\* ---------------------------------------------------------- manual edits

\* The updates of the editing specification: a title alone, a due alone, a
\* confidence with a provenance, all four fields, and none.
EditUpdates ==
    { Updates(TitleQuiz, Undef, Undef, Undef),
      Updates(Undef, Num(NewDate(DueSaturdayLocal)), Undef, Undef),
      Updates(Undef, Undef, Num(3), Prov61040),
      Updates(TitleLab, Num(NewDate(DueSundayLocal)), Num(10), ProvSyllabus),
      Updates(Undef, Undef, Undef, Undef) }

EditIntake ==
    \E r \in ConfirmResponses :
        LlmExtract("llmExtractFromDocument", r, "SYLLABUS", "doc", "none")

EditFields == \E id \in KnownIds, u \in EditUpdates : EditSuggestionCall(id, u)

EditConfirm == \E h \in Handles : Confirm(h, "alice")

EditClear == ClearSuggestions

NextEdit ==
    \/ EditIntake
    \/ EditFields
    \/ EditConfirm
    \/ EditClear

SpecEdit == Init /\ [][NextEdit]_vars

\* ------------------------------------------- refinements that interleave

\* refineWithFeedback is asynchronous: between its call to the extractor and
\* the answer, other calls of the service run.
AsyncIntake ==
    \E r \in TimingResponses :
        LlmExtract("llmExtractFromDocument", r, "SYLLABUS", "doc", "none")

AsyncRefineStart == \E h \in Handles : RefineStart(h)

AsyncRefineComplete ==
    \E i \in 1..Len(pending), r \in RefineResponses : RefineComplete(i, r)

AsyncEdit == \E id \in KnownIds, u \in LifeUpdates : EditSuggestionCall(id, u)

AsyncConfirm == \E h \in Handles : Confirm(h, "alice")

NextAsync ==
    \/ AsyncIntake
    \/ AsyncRefineStart
    \/ AsyncRefineComplete
    \/ AsyncEdit
    \/ AsyncConfirm

SpecAsync == Init /\ [][NextAsync]_vars

\* ---------------------------------------------- requests and their timeouts

\* The calls that await the extractor, the answers that may or may not come,
\* and the timers.  A timer that is set fires unless the call has ended;
\* nothing makes the page or the model answer.
TimeoutDocument == DocumentStart

TimeoutWebsite == WebsiteStart

TimeoutRefine == \E h \in Handles : RefineStart(h)

TimeoutFetchAnswers == \E i \in 1..Len(pending) : FetchAnswers(i)

TimeoutModelAnswers ==
    \E i \in 1..Len(pending), r \in TimingResponses : ModelAnswers(i, r)

TimeoutFires ==
    \E i \in 1..Len(pending) : FetchTimesOut(i) \/ ModelTimesOut(i)

TimeoutClear == ClearSuggestions

NextTimeout ==
    \/ TimeoutDocument
    \/ TimeoutWebsite
    \/ TimeoutRefine
    \/ TimeoutFetchAnswers
    \/ TimeoutModelAnswers
    \/ TimeoutFires
    \/ TimeoutClear

SpecTimeout == Init /\ [][NextTimeout]_vars /\ WF_vars(TimeoutFires)

\* ------------------------------------------------------------------ claims

\* The store holds a record with the id.
Has(id) == GetSuggestionById(suggestions, heap, id) # 0

\* The stored record with the id, as getSuggestionById returns it.
Rec(id) == heap[GetSuggestionById(suggestions, heap, id)]

\* No two places of the store hold the same id.
StoreIdsUnique ==
    \A i, j \in 1..Len(suggestions) :
        heap[suggestions[i]].id = heap[suggestions[j]].id => i = j

IsPrefix(a, b) == Len(a) <= Len(b) /\ \A i \in 1..Len(a) : a[i] = b[i]

\* The fields that editing and refinement write.
Content(sug) ==
    <<sug.title, sug.due, sug.confidence, sug.provenance, sug.warnings>>

\* An object that refineWithFeedback made.
IsRefinement(sug) ==
    \E i \in 1..Len(sug.warnings) : sug.warnings[i] = "Refined with user feedback"

\* The ids that generateId drew are pairwise distinct: two objects share an
\* id only when one is a refinement (which takes the id of its original).
DrawnIdsDistinct ==
    \A a, b \in Handles :
        (a # b /\ heap[a].id = heap[b].id)
            => IsRefinement(heap[a]) \/ IsRefinement(heap[b])

\* C1: once the stored suggestion with an id is confirmed, it is confirmed
\* in every later state in which the store still holds that id: no step
\* takes a stored record from confirmed back to unconfirmed (stated for
\* behaviours in which generateId draws no id twice).
C1_ConfirmedNeverReverts ==
    [][DrawnIdsDistinct' =>
          \A id \in KnownIds :
              (Has(id) /\ Rec(id).confirmed /\ Has(id)') => Rec(id)'.confirmed]_vars

\* C2: a suggestion id is confirmed successfully at most once: a confirm
\* that succeeds on an object is not preceded by a successful confirm of an
\* object with the same id, which would have left that object confirmed
\* (stated for behaviours in which generateId draws no id twice).
C2_ConfirmAtMostOnce ==
    [][(DrawnIdsDistinct' /\ last'.op = "confirm" /\ last'.ok)
          => ~\E a \in Handles :
                heap[a].id = heap[last'.h].id /\ heap[a].confirmed]_vars

\* C3: warnings are append-only: for every step and every id in the store
\* before and after it, the stored warnings before the step are a prefix of
\* the stored warnings after it (stated for behaviours in which generateId
\* draws no id twice).
C3_WarningsAppendOnly ==
    [][DrawnIdsDistinct' =>
          \A id \in KnownIds :
              (Has(id) /\ Has(id)')
                  => IsPrefix(Rec(id).warnings, Rec(id)'.warnings)]_vars

\* C4: editFields, setTimeOfDay, batchApplyTime and refineWithFeedback on a
\* confirmed suggestion are rejected: such a call leaves the title, due,
\* confidence, provenance and warnings of every confirmed stored suggestion
\* unchanged (stated for behaviours in which generateId draws no id twice).
C4_NoEditOnceConfirmed ==
    [][(DrawnIdsDistinct'
          /\ last'.op \in {"editSuggestion", "updateSuggestionTime",
                           "batchUpdateTiming", "refineWithFeedback"})
          => \A id \in KnownIds :
                (Has(id) /\ Rec(id).confirmed)
                    => Has(id)' /\ Content(Rec(id)') = Content(Rec(id))]_vars

\* C8: in every reachable state no two stored suggestions have the same id.
C8_StoreIdsUnique == StoreIdsUnique

\* The place of the id in the store (0 for none).
IndexOf(id) == FindIndex(Objects(suggestions), id)

\* An entry that carries a title, a due, a confidence and a provenance.
Complete(item) ==
    /\ ~item.null
    /\ Truthy(item.title) /\ Truthy(item.due)
    /\ item.confidence.k = "num" /\ Truthy(item.provenance)

\* C5: a successful refineWithFeedback of a stored suggestion keeps its id,
\* sets its title, due, confidence and provenance to those of the first
\* candidate of the response, and leaves the number of stored suggestions,
\* their order and every other suggestion unchanged (stated for responses
\* whose first candidate carries all four fields).
C5_RefineTakesFirstCandidate ==
    [][\A h \in Handles, r \in IntakeResponses :
          (/\ r.shape = "list" /\ r.entries # <<>> /\ Complete(r.entries[1])
           /\ Has(heap[h].id)
           /\ RefineWithFeedback(h, r) /\ last'.ok)
          => LET i == IndexOf(heap[h].id)
                 first == r.entries[1]
                 new == heap'[suggestions'[i]]
             IN  /\ new.id = heap[h].id
                 /\ new.title = first.title
                 /\ new.due = NewDate(first.due)
                 /\ new.confidence = first.confidence
                 /\ new.provenance = first.provenance
                 /\ Len(suggestions') = Len(suggestions)
                 /\ \A j \in 1..Len(suggestions) :
                       j # i => /\ suggestions'[j] = suggestions[j]
                                /\ heap'[suggestions[j]] = heap[suggestions[j]]]_vars

\* C6: every stored suggestion that was built from an extractor payload has
\* a non-empty text title and a due that is a valid point in time.
C6_StoredTitleAndDueValid ==
    \A i \in 1..Len(suggestions) :
        LET sug == heap[suggestions[i]]
        IN  sug.extractionMethod = "LLM"
                => /\ sug.title.k = "str" /\ sug.title.s # <<>>
                   /\ sug.due # NaN

\* C7: every stored suggestion whose confidence is present has a confidence
\* between 0.0 and 1.0.
C7_StoredConfidenceInRange ==
    \A i \in 1..Len(suggestions) :
        LET c == heap[suggestions[i]].confidence
        IN  c.k # "undef" => c.k = "num" /\ 0 <= c.n /\ c.n <= 10

\* The calls that take a response in.
IntakeOps == {"llmExtractFromDocument", "llmExtractFromWebsite"}

\* C9: an intake whose payload is no object, lacks the candidate list or has
\* a candidate field that is no list fails with an error, creates no
\* suggestion and leaves the store as it was.
C9_BadShapeFailsStoreUnchanged ==
    [][(last'.op \in IntakeOps /\ last'.arg \in {"nojson", "nolist", "notarray"})
          => /\ ~last'.ok
             /\ heap' = heap
             /\ suggestions' = suggestions]_vars

\* A non-empty store after an intake of a payload without the list failed.
C9_Witness ==
    /\ last.op = "llmExtractFromDocument"
    /\ last.arg = "nolist"
    /\ ~last.ok
    /\ suggestions # <<>>

\* An entry that structural validation finds no issue with.
Usable(item) == ~item.null /\ EntryIssues(item) = <<>>

\* C10: an intake of a payload of the expected shape, a list of objects,
\* does not abort: it drops exactly the entries with an unusable title, due or confidence and
\* stores the remaining entries, in payload order.
C10_DropsExactlyUnusableEntries ==
    [][\A r \in IntakeResponses :
          (/\ r.shape = "list"
           /\ \A k \in 1..Len(r.entries) : ~r.entries[k].null
           /\ \/ LlmExtract("llmExtractFromDocument", r, "SYLLABUS", "doc", "none")
              \/ LlmExtract("llmExtractFromWebsite", r, "WEBSITE", "none", "url"))
          => LET kept == SelectSeq(r.entries, Usable)
                 added == SubSeq(suggestions', Len(suggestions) + 1, Len(suggestions'))
             IN  /\ last'.ok
                 /\ Len(added) = Len(kept)
                 /\ \A k \in 1..Len(kept) :
                       /\ heap'[added[k]].title = kept[k].title
                       /\ heap'[added[k]].due = NewDate(kept[k].due)]_vars

\* The hour a time text writes, on the 24-hour clock.
WrittenHour(t) ==
    IF t.period = "pm" THEN (t.hh % 12) + 12
    ELSE IF t.period = "am" THEN t.hh % 12
    ELSE t.hh

\* A time text that denotes a clock time: an hour:minute pattern with the
\* minute up to 59 and the hour up to 23, or up to 12 next to am or pm.
DenotesClockTime(t) ==
    /\ t.match
    /\ t.mm <= 59
    /\ IF t.period = "none" THEN t.hh <= 23 ELSE t.hh <= 12

\* The due t has the calendar date of the due t0 and the time of day that
\* the text writes, seconds zero (in the local zone).
SameDateNewTime(t0, t, text) ==
    LET before == LocalFields(t0, tz)
        after == LocalFields(t, tz)
    IN  /\ after.y = before.y /\ after.m = before.m /\ after.d = before.d
        /\ after.h = WrittenHour(text) /\ after.mi = text.mm /\ after.sec = 0

\* C11: for every time text that updateSuggestionTime accepts, the resulting
\* due has the calendar date it had before and the hour and minute written
\* in the text, seconds zero; no accepted text moves due to another day
\* (stated for a store that holds no id twice).
C11_TimeEditKeepsDate ==
    [][\A id \in KnownIds, t \in TimingTexts :
          (StoreIdsUnique /\ Has(id) /\ UpdateSuggestionTimeCall(id, t) /\ last'.ok)
          => SameDateNewTime(Rec(id).due, Rec(id)'.due, t)]_vars

\* C12: updateSuggestionTime on a text that does not denote a clock time (no
\* hour:minute pattern, an hour above 23, an hour above 12 next to am or pm,
\* a minute above 59) reports failure and leaves due and warnings unchanged
\* (stated for a store that holds no id twice).
C12_BadTimeTextRejected ==
    [][\A id \in KnownIds, t \in TimingTexts :
          (StoreIdsUnique /\ Has(id) /\ ~DenotesClockTime(t)
             /\ UpdateSuggestionTimeCall(id, t))
          => /\ ~last'.ok
             /\ Rec(id)'.due = Rec(id).due
             /\ Rec(id)'.warnings = Rec(id).warnings]_vars

\* C13: batchUpdateTiming with a text that denotes a clock time returns
\* success = the number of given ids that are in the store and failed = the
\* number that are not; afterwards every stored suggestion whose id was
\* given has the new time of day on its date, and every other stored
\* suggestion is unchanged.
C13_BatchCountsAndEffect ==
    [][\A ids \in SeqsUpTo(KnownIds, 2), t \in TimingTexts :
          (DenotesClockTime(t) /\ BatchUpdateTimingCall(ids, t))
          => LET present == { k \in 1..Len(ids) : Has(ids[k]) }
             IN  /\ last'.out = << Cardinality(present),
                                   Len(ids) - Cardinality(present) >>
                 /\ \A i \in 1..Len(suggestions) :
                       LET a == suggestions[i]
                       IN  IF \E k \in 1..Len(ids) : ids[k] = heap[a].id
                           THEN SameDateNewTime(heap[a].due, heap'[a].due, t)
                           ELSE heap'[a] = heap[a]]_vars

\* The suggestion carries the warning.
HasWarning(sug, w) == \E i \in 1..Len(sug.warnings) : sug.warnings[i] = w

\* C14: when an intake adds a suggestion whose title equals, ignoring case,
\* the title of a suggestion with another id added before it (stored by an
\* earlier intake, or earlier in the same payload), the later one carries
\* the duplicate warning; a suggestion matching no other carries none.
C14_DuplicateWarningOnLater ==
    [][\A r \in ValidateResponses :
          (LlmExtract("llmExtractFromDocument", r, "SYLLABUS", "doc", "none")
             /\ last'.ok)
          => \A k \in 1..Len(last'.out) :
                LET sug == heap'[last'.out[k]]
                    earlier == Objects(suggestions)
                                 \o [j \in 1..(k - 1) |-> heap'[last'.out[j]]]
                    dup == \E j \in 1..Len(earlier) :
                              /\ earlier[j].id # sug.id
                              /\ ToLowerCase(earlier[j].title.s)
                                    = ToLowerCase(sug.title.s)
                IN  HasWarning(sug, "Potential duplicate") <=> dup]_vars

\* The titles of the validation specification that hold a vague term.
VagueTitles == { TitleTBD, TitleSoon }

\* C15: a validated suggestion carries the vague-term warning exactly when
\* its title holds one of tbd, soon, later, eventually, sometime (in any
\* case) and its confidence is greater than 0.7.
C15_VagueTermWarning ==
    \A a \in Handles :
        HasWarning(heap[a], "High confidence on vague term - possible hallucination")
            <=> (heap[a].title \in VagueTitles /\ heap[a].confidence.n > 7)

\* A vague title at 0.9 with the warning, and one at exactly 0.7 without.
C15_Witness ==
    /\ \E a \in Handles :
          /\ heap[a].title = TitleTBD /\ heap[a].confidence = Num(9)
          /\ HasWarning(heap[a], "High confidence on vague term - possible hallucination")
    /\ \E a \in Handles :
          /\ heap[a].title = TitleTBD /\ heap[a].confidence = Num(7)
          /\ ~HasWarning(heap[a], "High confidence on vague term - possible hallucination")

\* C16: a validated suggestion carries the weekend warning exactly when its
\* due falls on a Saturday or Sunday (in the local zone); one due on a
\* Tuesday at 14:00 carries no weekend, early-hour or late-hour warning.
C16_WeekendWarning ==
    \A a \in Handles :
        /\ HasWarning(heap[a], "Weekend deadline - verify if correct")
              <=> heap[a].due \in { NewDate(DueSaturdayLocal), NewDate(DueSundayLocal) }
        /\ heap[a].due = NewDate(DueTuesday)
              => /\ ~HasWarning(heap[a], "Very early morning deadline - verify if correct")
                 /\ ~HasWarning(heap[a], "Very late evening deadline - verify if correct")

\* A suggestion due on a Sunday with the warning, next to one due on the
\* Tuesday.
C16_Witness ==
    /\ \E a \in Handles :
          /\ heap[a].due = NewDate(DueSundayLocal)
          /\ HasWarning(heap[a], "Weekend deadline - verify if correct")
    /\ \E a \in Handles : heap[a].due = NewDate(DueTuesday)

\* The course of a suggestion of the confirmation specification: that of
\* the mock Canvas assignments for a suggestion parsed from Canvas, "6.1040"
\* for one whose provenance names it, else the unknown-course sentinel.
ExpectedCourse(sug) ==
    IF sug.extractionMethod = "RULES" \/ sug.provenance = Prov61040
    THEN <<"6",".","1","0","4","0">>
    ELSE <<"U","n","k","n","o","w","n"," ","C","o","u","r","s","e">>

C18_ConfirmErrorLeavesStore ==
    [][\A h \in Handles, user \in Users :
          (Confirm(h, user) /\ ~last'.ok)
          => heap' = heap /\ suggestions' = suggestions]_vars

\* The response yields no usable candidate: every entry lacks a title or a
\* due.
NoUsableCandidate(r) ==
    \A k \in 1..Len(r.entries) :
        ~Truthy(r.entries[k].title) \/ ~Truthy(r.entries[k].due)

C20_StoreUpdateInPlace ==
    [][(last'.op \in {"confirm", "refineWithFeedback"} /\ last'.ok)
          => LET v == IF last'.op = "confirm" THEN last'.h ELSE last'.out[1]
                 id == heap'[v].id
                 i == IndexOf(id)
             IN  IF Has(id)
                 THEN /\ Len(suggestions') = Len(suggestions)
                      /\ suggestions'[i] = v
                      /\ \A j \in 1..Len(suggestions) :
                            j # i => suggestions'[j] = suggestions[j]
                      /\ GetSuggestionById(suggestions', heap', id) = v
                 ELSE /\ suggestions' = suggestions
                      /\ GetSuggestionById(suggestions', heap', id) = 0]_vars

\* A refinement that replaced the first of two stored records in place.
C20_Witness ==
    /\ last.op = "refineWithFeedback" /\ last.ok
    /\ Len(suggestions) = 2
    /\ suggestions[1] = last.out[1]
    /\ suggestions[2] # suggestions[1]

\* The ids the store holds.
StoredIds == { heap[suggestions[i]].id : i \in 1..Len(suggestions) }

C22_ExtractorFailureAppliesNothing ==
    [][(last'.op \in IntakeOps \cup {"refineWithFeedback"}
          /\ last'.arg = "llmfail")
          => /\ ~last'.ok
             /\ heap' = heap
             /\ suggestions' = suggestions]_vars

\* A refinement of a stored suggestion has failed on the extractor call.
C22_Witness ==
    /\ last.op = "refineWithFeedback"
    /\ last.arg = "llmfail"
    /\ ~last.ok
    /\ Has(heap[last.h].id)

\* The value of a field after an edit: the update's when it is present.
Edited(update, old) == IF update.k # "undef" THEN update ELSE old

\* C23: editSuggestion on a stored id changes exactly the fields present in
\* the updates (title, due, confidence, provenance) of the stored object,
\* appends exactly one "Manually edited by user" warning, and leaves the
\* object's other fields (id, source, extractionMethod, confirmed and the
\* rest), the absent fields, every other object and the store's array as
\* they were.
C23_EditChangesExactlyGivenFields ==
    [][\A id \in KnownIds, u \in EditUpdates :
          (Has(id) /\ EditSuggestionCall(id, u))
              => LET a == GetSuggestionById(suggestions, heap, id)
                     old == heap[a]
                     new == heap'[a]
                 IN  /\ last'.ok
                     /\ new.title = Edited(u.title, old.title)
                     /\ new.due = Edited(u.due, Num(old.due)).n
                     /\ new.confidence = Edited(u.confidence, old.confidence)
                     /\ new.provenance = Edited(u.provenance, old.provenance)
                     /\ new.warnings = old.warnings \o <<"Manually edited by user">>
                     /\ new = [old EXCEPT !.title = new.title, !.due = new.due,
                                          !.confidence = new.confidence,
                                          !.provenance = new.provenance,
                                          !.warnings = new.warnings]
                     /\ Len(heap') = Len(heap)
                     /\ \A b \in Handles \ {a} : heap'[b] = heap[b]
                     /\ suggestions' = suggestions]_vars

\* An edit of the due alone has been applied to a confirmed record of a
\* store that holds two records: its title is still the extracted one.
C23_Witness ==
    /\ last.op = "editSuggestion"
    /\ last.ok
    /\ Len(suggestions) = 2
    /\ heap[last.h].confirmed
    /\ heap[last.h].title = TitleHW
    /\ heap[last.h].due = NewDate(DueSaturdayLocal)
    /\ heap[last.h].warnings = <<"Manually edited by user">>

\* C24: the suggestions parseFromCanvas stores have passed domain
\* validation: each carries every warning that validateSuggestions gives
\* it against the suggestions stored before the call (a due in the past, a
\* due on a weekend, a title that duplicates a stored one, ...).
C24_CanvasPassesDomainValidation ==
    [][last'.op = "parseFromCanvas"
          => \A i \in 1..Len(last'.out) :
                LET sug == heap'[last'.out[i]]
                    ws == ValidateOne([sug EXCEPT !.warnings = <<>>],
                                      Objects(suggestions), now, tz)
                IN  \A k \in 1..Len(ws) : HasWarning(sug, ws[k])]_vars

\* C25: the suggestion refineWithFeedback stores has passed domain
\* validation: besides "Refined with user feedback" it carries every
\* warning that validateSuggestions gives the refined value against the
\* stored suggestions (stated for refined values on which validation does
\* not throw).
C25_RefineRunsDomainValidation ==
    [][(last'.op = "refineWithFeedback" /\ last'.ok)
          => LET sug == heap'[last'.out[1]]
                 all == Objects(suggestions)
                 ws == ValidateOne([sug EXCEPT !.warnings = <<>>], all, now, tz)
             IN  /\ HasWarning(sug, "Refined with user feedback")
                 /\ ~ValidateThrows(sug, all)
                       => \A k \in 1..Len(ws) : HasWarning(sug, ws[k])]_vars

\* C26: while a refineWithFeedback of a suggestion waits for the extractor,
\* no other call takes effect on the stored record with its id: every step
\* that is not the answer's arrival leaves that record as it was; and the
\* arrival of the answer does not take a confirmed record back to
\* unconfirmed.
C26_NothingInterleavesWithRefine ==
    [][\A i \in 1..Len(pending) :
          LET id == heap[pending[i].h].id
          IN  Has(id)
                => /\ Len(pending') >= Len(pending)
                         => Has(id)' /\ Rec(id)' = Rec(id)
                   /\ (Len(pending') < Len(pending) /\ Rec(id).confirmed)
                         => Has(id)' /\ Rec(id)'.confirmed]_vars

\* C27: a successful confirm changes nothing but the confirmed flag: the
\* stored record with the id, when there is one, has after the call the
\* title, due, confidence, provenance and warnings stored just before it,
\* whatever object the caller passes, and every other place of the store
\* holds the object it held (stated for behaviours in which generateId
\* draws no id twice).
C27_ConfirmChangesOnlyFlag ==
    [][\A h \in Handles :
        (DrawnIdsDistinct' /\ last'.op = "confirm" /\ last'.ok /\ last'.h = h)
          => LET id == heap[h].id
             IN  /\ Has(id) => Has(id)' /\ Content(Rec(id)') = Content(Rec(id))
                 /\ \A k \in 1..Len(suggestions) :
                       heap[suggestions[k]].id # id
                           => /\ suggestions'[k] = suggestions[k]
                              /\ heap'[suggestions[k]] = heap[suggestions[k]]
                 /\ Len(suggestions') = Len(suggestions)]_vars

\* C28: the source and the extractionMethod of a stored suggestion never
\* change: for every step and every id stored before and after it, the
\* stored record has the source and the extractionMethod it had (stated
\* for behaviours in which generateId draws no id twice).
C28_SourceAndMethodFixed ==
    [][DrawnIdsDistinct' =>
          \A id \in KnownIds :
              (Has(id) /\ Has(id)')
                  => /\ Rec(id)'.source = Rec(id).source
                     /\ Rec(id)'.extractionMethod = Rec(id).extractionMethod]_vars

\* The seconds since local midnight of an instant.
SecondOfDay(t) ==
    LET f == LocalFields(t, tz)
    IN  f.h * SecPerHour + f.mi * SecPerMin + f.sec

\* C29: domain validation gives the early-morning warning exactly when the
\* due time is before 06:00 and the late-evening warning exactly when the
\* due time is after 23:00 (23:59 gets it, 22:00 and 14:00 do not).
C29_EarlyAndLateWarnings ==
    \A a \in Handles :
        /\ HasWarning(heap[a], "Very early morning deadline - verify if correct")
              <=> SecondOfDay(heap[a].due) < 6 * SecPerHour
        /\ HasWarning(heap[a], "Very late evening deadline - verify if correct")
              <=> SecondOfDay(heap[a].due) > 23 * SecPerHour

\* C30: domain validation gives the low-confidence warning exactly when the
\* candidate's confidence is present and below 0.3, 0 included: after an
\* intake, the suggestion made from a candidate has the warning if and only
\* if the candidate has a confidence and it is below 0.3.
C30_LowConfidenceWarning ==
    [][\A r \in ValidateResponses :
          (/\ LlmExtract("llmExtractFromDocument", r, "SYLLABUS", "doc", "none")
           /\ last'.ok)
              => \A k \in 1..Len(r.entries) :
                    LET c == r.entries[k].confidence
                    IN  HasWarning(heap'[last'.out[k]], "Low confidence score")
                            <=> (c.k = "num" /\ c.n < 3)]_vars

\* C31: domain validation gives the past-date warning exactly when the due
\* is earlier than the current instant and the far-future warning exactly
\* when the due is more than 365 days after it: a due from now to now + 365
\* days gets neither, and no due gets both.
C31_PastAndFarFutureWarnings ==
    \A a \in Handles :
        LET sug == heap[a]
            past == HasWarning(sug, "Date is in the past")
            far == HasWarning(sug, "Date is very far in the future")
        IN  /\ past <=> (sug.due # NaN /\ sug.due < now)
            /\ far <=> (sug.due # NaN /\ sug.due > now + 365 * SecPerDay)
            /\ ~(past /\ far)

\* The store holds a suggestion due exactly 365 days from now with neither
\* warning, and one due a second later with the far-future warning.
C31_Witness ==
    /\ Len(suggestions) = 2
    /\ heap[suggestions[1]].due = now + 365 * SecPerDay
    /\ ~HasWarning(heap[suggestions[1]], "Date is very far in the future")
    /\ heap[suggestions[2]].due = now + 365 * SecPerDay + 1
    /\ HasWarning(heap[suggestions[2]], "Date is very far in the future")

\* The checks of domain validation whose condition holds for a suggestion
\* with a string title, against the stored suggestions.
TriggeredChecks(sug, all) ==
    LET c == sug.confidence
        valid == sug.due # NaN
        lower == ToLowerCase(sug.title.s)
    IN  { ck \in {"past", "far", "duplicate", "low", "weekend", "early", "late",
                  "vague", "short", "round"} :
            \/ ck = "past" /\ valid /\ sug.due < now
            \/ ck = "far" /\ valid /\ sug.due > now + 365 * SecPerDay
            \/ ck = "duplicate"
                  /\ \E i \in 1..Len(all) :
                        /\ all[i].id # sug.id
                        /\ ToLowerCase(all[i].title.s) = lower
            \/ ck = "low" /\ c.k = "num" /\ c.n < 3
            \/ ck = "weekend" /\ valid /\ GetDay(sug.due, tz) \in {0, 6}
            \/ ck = "early" /\ valid /\ SecondOfDay(sug.due) < 6 * SecPerHour
            \/ ck = "late" /\ valid /\ SecondOfDay(sug.due) > 23 * SecPerHour
            \/ ck = "vague" /\ c.k = "num" /\ c.n > 7
                  /\ \E term \in VagueTerms : Includes(lower, term)
            \/ ck = "short" /\ valid /\ sug.due > now /\ sug.due < now + SecPerDay
            \/ ck = "round" /\ valid /\ c.k = "num" /\ c.n > 8
                  /\ GetDate(sug.due, tz) \in {1, 15, 30, 31} }

C33_DefaultConfidenceOnlyWhenOmitted ==
    [][\A r \in ValidateResponses :
          (/\ LlmExtract("llmExtractFromDocument", r, "SYLLABUS", "doc", "none")
           /\ last'.ok)
              => \A k \in 1..Len(r.entries) :
                    LET c == r.entries[k].confidence
                        stored == heap'[last'.out[k]].confidence
                    IN  /\ (c.k = "num" /\ 0 <= c.n /\ c.n <= 10) => stored = c
                        /\ c.k = "undef" => stored = Num(5)]_vars

\* C34: every intake or refinement that has been started eventually ends,
\* with its result applied or with an error, even when the extractor never
\* answers: whenever a call awaits the extractor, a state follows in which
\* no call does.
C34_EveryRequestEnds == (pending # <<>>) ~> (pending = <<>>)

\* C35: a manual edit addressed to an id that is not in the store
\* (editSuggestion, and with it updateSuggestionTitle and
\* updateSuggestionDate, and updateSuggestionTime) reports failure and
\* leaves every object and the store as they were.
C35_EditOfUnknownIdFails ==
    [][\A id \in KnownIds :
          IndexOf(id) = 0
            => /\ \A u \in LifeUpdates :
                     EditSuggestionCall(id, u)
                       => ~last'.ok /\ heap' = heap /\ suggestions' = suggestions
               /\ \A t \in LifeTimes :
                     UpdateSuggestionTimeCall(id, t)
                       => ~last'.ok /\ heap' = heap /\ suggestions' = suggestions]_vars

\* An edit addressed to the id of a suggestion that was cleared from the
\* store has failed.
C35_Witness ==
    /\ last.op = "editSuggestion"
    /\ ~last.ok
    /\ suggestions = <<>>
    /\ heap # <<>>

\* C36: an add appends every given suggestion at the end of the store, in
\* the given order, and rejects, merges or reorders nothing: after
\* addSuggestions, and after an intake that succeeds, the store is the
\* store before followed by the suggestions given, and the objects stored
\* before are as they were, whatever the titles already stored.
C36_AddAppendsAll ==
    [][(last'.op \in IntakeOps \cup {"addSuggestions"} /\ last'.ok)
          => /\ suggestions' = suggestions \o last'.out
             /\ \A k \in 1..Len(suggestions) :
                   heap'[suggestions[k]] = heap[suggestions[k]]]_vars

\* addSuggestions has added an object the store already held: the store
\* holds it twice.
C36_Witness ==
    /\ last.op = "addSuggestions"
    /\ Len(suggestions) = 2
    /\ suggestions[1] = suggestions[2]
    /\ last.out = <<suggestions[2]>>

\* The calls that reach the store's addSuggestions, updateSuggestion,
\* removeSuggestion or clearSuggestions (the edits reach updateSuggestion
\* only when they succeed).
WritesStore(call) ==
    \/ call.op \in {"llmExtractFromDocument", "llmExtractFromWebsite",
                    "parseFromCanvas", "addSuggestions", "refineWithFeedback",
                    "confirm", "clearSuggestions", "removeSuggestion"}
    \/ call.op \in {"editSuggestion", "updateSuggestionTime"} /\ call.ok

\* C37: the store's records change only through the store's own add,
\* update and clear operations: a step that calls none of them leaves the
\* records the store holds, and their contents, as they were.
C37_RecordsChangeOnlyThroughStore ==
    [][~WritesStore(last') => Objects(suggestions)' = Objects(suggestions)]_vars

\* C38: every confirm that succeeds concerns a suggestion that is in the
\* store: after a confirm that returns its tuple, the store holds a record
\* with the suggestion's id and that record is confirmed; so a confirm of a
\* suggestion whose id is not in the store returns no tuple.
C38_ConfirmOnlyOfStored ==
    [][\A h \in Handles :
          (last'.op = "confirm" /\ last'.ok /\ last'.h = h)
              => LET id == heap[h].id
                 IN  /\ Has(id)
                     /\ Has(id)'
                     /\ Rec(id)'.confirmed]_vars

\* The sum of the counts of a record of counts.
RECURSIVE SumOfCounts(_)
SumOfCounts(counts) ==
    IF DOMAIN counts = {} THEN 0
    ELSE LET key == CHOOSE x \in DOMAIN counts : TRUE
         IN  counts[key]
               + SumOfCounts([x \in DOMAIN counts \ {key} |-> counts[x]])

\* C39: in every reachable state the statistics agree with the store:
\* totalSuggestions is the number of stored suggestions, confirmed and
\* unconfirmed add up to it, the counts by source add up to it, the counts
\* by method add up to it, and getUnconfirmedSuggestions returns the stored
\* suggestions whose confirmed flag is not true, as many as the statistics
\* count.
C39_StatisticsConsistent ==
    LET st == GetStateStatistics(suggestions, heap)
        unconfirmed == GetUnconfirmedSuggestions(suggestions, heap)
    IN  /\ st.totalSuggestions = Len(suggestions)
        /\ st.confirmedSuggestions + st.unconfirmedSuggestions = st.totalSuggestions
        /\ st.confirmedSuggestions >= 0
        /\ st.unconfirmedSuggestions >= 0
        /\ SumOfCounts(st.suggestionsBySource) = st.totalSuggestions
        /\ SumOfCounts(st.suggestionsByMethod) = st.totalSuggestions
        /\ Len(unconfirmed) = st.unconfirmedSuggestions
        /\ \A k \in 1..Len(unconfirmed) : ~heap[unconfirmed[k]].confirmed
        /\ \A k \in 1..Len(suggestions) :
              ~heap[suggestions[k]].confirmed
                  => \E j \in 1..Len(unconfirmed) : unconfirmed[j] = suggestions[k]

\* The store holds a confirmed and an unconfirmed suggestion of different
\* sources and methods.
C39_Witness ==
    /\ Len(suggestions) = 2
    /\ heap[suggestions[1]].source # heap[suggestions[2]].source
    /\ heap[suggestions[1]].extractionMethod # heap[suggestions[2]].extractionMethod
    /\ heap[suggestions[1]].confirmed # heap[suggestions[2]].confirmed

====
